---- MODULE Spec2Model ----
(***************************************************************************)
(* Model of the style-posting job engine: the Celery worker               *)
(* execute_style_post (app/tasks/style_post_task.py), the automation      *)
(* driver SalonBoardStylePoster.run (app/automation/salon_board_poster.py)*)
(* and the interrupt / resume endpoints (app/api/v1/tasks.py), all        *)
(* reading and writing one Task row through task_service.                 *)
(*                                                                         *)
(* Database access goes through SQLAlchemy Sessions (SessionLocal,        *)
(* core/database.py: expire_on_commit left at its default).  A Session    *)
(* keeps one instance per row: a query returns that instance without      *)
(* overwriting attributes that are already loaded, the flush at commit    *)
(* emits UPDATE only for the columns whose new value differs from the     *)
(* loaded one, commit expires the instance and db.refresh reloads it.     *)
(* `loaded` / `expired` are the worker Session's instance, `hloaded` the  *)
(* request Session's instance.                                             *)
(***************************************************************************)
EXTENDS Integers, Sequences, FiniteSets, TLC

\* ---------------------------------------------------------------- bounds
MaxRows == 3
MaxRuns == 2
MaxRequests == 3
MaxClock == 1
MaxSalons == 3
MaxSignatures == 2
MaxSheet == 2

\* ------------------------------------------------------------- constants
NoInt == -1
NoStr == "None"

\* What the portal does with one dataset row when it is submitted:
\*   ok      - step_process_single_style returns
\*   timeout - an element wait / click inside the form times out
\*   robot   - _click_and_wait finds a robot-detection signature
RowKinds == {"ok", "timeout", "robot"}

\* The same, with the two ways the row can fail after the portal has shown
\* the completion marker:
\*   back_timeout - the click on the back-to-list button times out
\*   back_robot   - _click_and_wait finds a signature after that click
FormKinds == RowKinds \cup {"back_timeout", "back_robot"}

\* the views of the style section
Views == {"none", "list", "form", "complete", "other"}

Statuses == {"PENDING", "PROCESSING", "SUCCESS", "FAILURE", "INTERRUPTED"}

\* no Task instance in a Session
NoInstance == [status |-> NoStr]

\* top-level sections of selectors.yaml that the steps index
\* (salon_selection is read by step_login together with login)
Sections == {"login", "navigation", "style_form"}

\* salon ids and names as the portal lists them
SalonIds == {"id1", "id2"}
SalonNames == {"nameA", "nameB"}

\* _check_robot_detection has not been called
NotCalled == [called |-> FALSE, result |-> FALSE, tests |-> <<>>]

\* the two columns of the data file that name a row's image:
\* "image_filename", which create_style_post_task validates, and "画像名"
\* (image_name here), which the row loop of run reads
SheetColumns == {"image_filename", "image_name"}

\* salon_info = None: neither salon_id nor salon_name is set in the setting
NoHint == [id |-> NoStr, name |-> NoStr]

VARIABLES
    df,          \* the dataset: df[i+1] is the behaviour of row i
    selectors,   \* sections present in the selector configuration
    detection,   \* selectors["robot_detection"]: selectors and texts, in order
    present,     \* the detection signatures present on the current page
    guard,       \* the last call of _check_robot_detection: result and tests
    sheet,       \* the uploaded data file: its columns and rows
    images,      \* names of the uploaded image files
    accepted,    \* create_style_post_task accepted the upload
    view,        \* the view of the style section the page shows, or "none"
    salon_rows,  \* rows of the salon selection table after login (<<>>: none)
    salon_info,  \* execute_style_post: salon_info (NoHint: None)
    selected,    \* index of the salon row whose link was clicked, or 0
    shots,       \* file names _take_screenshot produced in the run in progress
    task,        \* the Task row in the database
    queue,       \* messages for execute_style_post on the broker
    wpc,         \* position of the worker in execute_style_post / run
    loaded,      \* the Task instance held by the worker's Session
    expired,     \* that instance is expired (commit done, refresh pending)
    start_from,  \* execute_style_post: start_from
    results,     \* run: results
    idx,         \* run: index of the row the loop is at
    browser,     \* self.browser is set
    page,        \* self.page is set
    cause,       \* the exception travelling to run's outer handler
    raised,      \* run is leaving with an exception
    log,         \* session actions of the current run, in order
    attempts,    \* rows handed to step_process_single_style, current run
    posted,      \* posted[i+1]: times row i was posted, over the Job's life
    stopAt,      \* row index at which the callback returned False, or NoInt
    runs,        \* number of worker runs started
    hpc,         \* position of the request handler
    hloaded,     \* the Task instance held by the request's Session
    reqs,        \* number of interrupt / resume requests made
    intAt        \* row in progress when the outstanding interrupt was committed

vars == <<df, selectors, detection, present, guard, sheet, images, accepted,
          view,
          salon_rows, salon_info, selected, shots, task, queue,
          wpc, loaded, expired, start_from, results, idx, browser, page,
          cause, raised, log, attempts, posted, stopAt, runs, hpc, hloaded,
          reqs, intAt>>

inputs == <<df, selectors, detection, present, sheet, images>>

auxVars == <<guard, accepted, view>>

loginVars == <<salon_rows, salon_info, selected>>

runVars == <<start_from, shots, results, idx, browser, page, cause, raised, log,
             attempts, stopAt>>

N == Len(df)

\* ------------------------------------------------------------ task_service

\* create_task: the row as the upload endpoint stores it
CreateTask(total) ==
    [status |-> "PENDING", total_items |-> total, completed_items |-> 0,
     error_message |-> NoStr, screenshot_path |-> NoStr, log_file_path |-> NoStr,
     completed_at |-> FALSE]

UpdateTaskStatusNoneAsZero(t, inst, status, ci, em, lf, sp) ==
    [t EXCEPT !.status = IF status # inst.status THEN status ELSE @,
              !.completed_items = IF ci = NoInt THEN 0 ELSE ci]

\* update_task_status up to and including db.commit(): the row after the
\* UPDATE that the flush emits for instance `inst` of the calling Session.
UpdateTaskStatus(t, inst, status, ci, em, lf, sp) ==
    [t EXCEPT !.status = IF status # inst.status THEN status ELSE @,
              !.completed_items =
                  IF ci # NoInt /\ ci # inst.completed_items THEN ci ELSE @,
              !.error_message =
                  IF em # NoStr /\ em # inst.error_message THEN em ELSE @,
              !.log_file_path =
                  IF lf # NoStr /\ lf # inst.log_file_path THEN lf ELSE @,
              !.screenshot_path =
                  IF sp # NoStr /\ sp # inst.screenshot_path THEN sp ELSE @,
              !.completed_at =
                  IF status \in {"SUCCESS", "FAILURE"} THEN TRUE ELSE @]

\* the worker calls update_task_status: UPDATE + commit, instance expired
WorkerUpdate(status, ci, em, lf, sp) ==
    /\ task' = UpdateTaskStatus(task, loaded, status, ci, em, lf, sp)
    /\ expired' = TRUE
    /\ UNCHANGED loaded

\* db.refresh(db_task) at the end of the worker's update_task_status
Refresh ==
    /\ expired
    /\ loaded' = task
    /\ expired' = FALSE
    /\ UNCHANGED <<inputs, auxVars, loginVars, task, queue, wpc, runVars, posted, runs,
                   hpc, hloaded, reqs, intAt>>

\* ------------------------------------------------------------------ Init

NewResults ==
    [success |-> TRUE, total |-> 0, completed |-> 0, failed |-> 0, errors |-> <<>>]

\* the Job as create_style_post_task leaves it: the Task row stored, one
\* message queued, no worker on it yet
Created ==
    /\ detection = [selectors |-> <<>>, texts |-> <<>>]
    /\ present = {}
    /\ guard = NotCalled
    /\ sheet = [columns |-> SheetColumns, rows |-> <<>>]
    /\ images = {}
    /\ accepted = TRUE
    /\ view = "none"
    /\ salon_rows = <<>>
    /\ salon_info = NoHint
    /\ selected = 0
    /\ shots = <<>>
    /\ task = CreateTask(Len(df))
    /\ queue = 1
    /\ wpc = "idle"
    /\ loaded = CreateTask(Len(df))
    /\ expired = FALSE
    /\ start_from = 0
    /\ results = NewResults
    /\ idx = 0
    /\ browser = FALSE
    /\ page = FALSE
    /\ cause = NoStr
    /\ raised = FALSE
    /\ log = <<>>
    /\ attempts = <<>>
    /\ posted = [i \in 1..Len(df) |-> 0]
    /\ stopAt = NoInt
    /\ runs = 0
    /\ hpc = "idle"
    /\ hloaded = NoInstance
    /\ reqs = 0
    /\ intAt = NoInt

Init ==
    /\ df \in UNION {[1..n -> RowKinds] : n \in 0..MaxRows}
    /\ selectors \in {Sections} \cup {Sections \ {s} : s \in Sections}
    /\ Created

\* What the image checks of the row body find for a row, with a portal
\* that accepts every row it is given:
\*   noimage - the row has no image name
\*   nofile  - the named image is not in image_dir
ImageKinds == {"ok", "noimage", "nofile"}

\* the same Job over datasets whose rows differ in their image reference
ImageInit ==
    /\ df \in UNION {[1..n -> ImageKinds] : n \in 0..MaxRows}
    /\ selectors = Sections
    /\ Created

\* --------------------------------------------------- execute_style_post

\* The broker hands the message to a worker: execute_style_post reads the
\* Task (first load into its Session) and takes start_from from it.
Deliver ==
    /\ queue > 0
    /\ wpc \in {"idle", "done"}
    /\ ~expired
    /\ runs < MaxRuns
    /\ queue' = queue - 1
    /\ runs' = runs + 1
    /\ loaded' = task
    /\ expired' = FALSE
    /\ start_from' = task.completed_items
    /\ results' = NewResults
    /\ idx' = 0
    /\ browser' = FALSE
    /\ page' = FALSE
    /\ cause' = NoStr
    /\ raised' = FALSE
    /\ log' = <<>>
    /\ shots' = <<>>
    /\ attempts' = <<>>
    /\ stopAt' = NoInt
    /\ intAt' = NoInt
    /\ wpc' = "mark_processing"
    /\ UNCHANGED <<inputs, auxVars, loginVars, task, posted, hpc, hloaded, reqs>>

\* update_task_status(db, task_uuid, "PROCESSING", log_file_path=...)
MarkProcessing ==
    /\ wpc = "mark_processing"
    /\ ~expired
    /\ WorkerUpdate("PROCESSING", NoInt, NoStr, "log", NoStr)
    /\ wpc' = "setup"
    /\ UNCHANGED <<inputs, auxVars, loginVars, queue, runVars, posted, runs, hpc,
                   hloaded, reqs, intAt>>

AfterSetupGoOn(ok) == "start_browser"

\* an exception of the set-up lines goes to the handler of
\* execute_style_post, past the construction of the poster and run
AfterSetup(ok) == IF ok THEN "start_browser" ELSE "task_except"

\* setting, decrypted password and selectors: resolved, or an exception
Setup ==
    /\ wpc = "setup"
    /\ ~expired
    /\ \E ok \in BOOLEAN :
          /\ wpc' = AfterSetup(ok)
          /\ IF ok THEN UNCHANGED <<cause, raised>>
                   ELSE /\ cause' = "setup"
                        /\ raised' = TRUE
    /\ UNCHANGED <<inputs, auxVars, loginVars, task, queue, loaded, expired,
                   start_from, shots, results, idx, browser, page, log,
                   attempts, posted, stopAt, runs, hpc, hloaded, reqs, intAt>>

\* --------------------------------------------- SalonBoardStylePoster.run

\* _take_screenshot: the file name; page.screenshot is called (and may
\* raise) only when self.page is set
CanCaptureFail == page

\* datetime.now() to the second: not before the previous screenshot's
ClockNow ==
    {t \in 0..MaxClock : shots = <<>> \/ t >= shots[Len(shots)].timestamp}

\* f"error_row_{idx}" and "critical_error"
RowPrefix(i) == <<"error_row", i>>
CriticalPrefix == <<"critical_error">>

ScreenshotNameNoPrefix(prefix, ts) == [prefix |-> <<"error">>, timestamp |-> ts]

\* filename = f"{prefix}_{timestamp}.png"
ScreenshotName(prefix, ts) == [prefix |-> prefix, timestamp |-> ts]

\* _take_screenshot(prefix): the names produced so far, with the new one
TakeScreenshot(names, prefix, ts) == Append(names, ScreenshotName(prefix, ts))

\* self._start_browser()
StartBrowser ==
    /\ wpc = "start_browser"
    /\ \E ok \in BOOLEAN :
          IF ok THEN /\ browser' = TRUE
                     /\ page' = TRUE
                     /\ wpc' = "login"
                     /\ UNCHANGED cause
                ELSE /\ browser' \in BOOLEAN
                     /\ page' = FALSE
                     /\ cause' = "launch"
                     /\ wpc' = "critical"
    /\ log' = Append(log, "start")
    /\ UNCHANGED <<inputs, auxVars, loginVars, task, queue, loaded, expired,
                   start_from, shots, results, idx, raised, attempts, posted,
                   stopAt, runs, hpc, hloaded, reqs, intAt>>

\* the test of the salon loop in step_login: the row matches the hint by
\* id or by name
RowMatches(row, info) ==
    \/ info.id # NoStr /\ row.id = info.id
    \/ info.name # NoStr /\ row.name = info.name

\* for row in rows: ... click, break: the first listed row that matches,
\* 0 when the loop ends without a break (or salon_info is None)
SelectSalon(rows, info) ==
    IF \E i \in 1..Len(rows) : RowMatches(rows[i], info)
    THEN CHOOSE i \in 1..Len(rows) :
            /\ RowMatches(rows[i], info)
            /\ \A j \in 1..(i - 1) : ~RowMatches(rows[j], info)
    ELSE 0

\* what step_login can do: KeyError when the login section is missing;
\* else it returns (unless a listed salon had to be chosen and none
\* matched), or raises on robot detection, a timeout or "Salon not found"
LoginOutcomes ==
    IF "login" \notin selectors THEN {"selector"}
    ELSE {"robot_login", "login"} \cup
         (IF salon_rows = <<>> \/ SelectSalon(salon_rows, salon_info) # 0
          THEN {"ok"} ELSE {})

\* _click_and_wait: click, settle, widget removal, detection check
ClickAndWait == <<"click", "check">>

\* the page operations of step_login, by outcome: all of them when it
\* returns (the click on the salon's link only for a listed account), up
\* to the detection on the login page, up to the click that timed out
LoginOps(out, rows) ==
    IF out = "selector" THEN <<>>
    ELSE IF out = "robot_login" THEN <<"login", "goto", "check">>
    ELSE IF out = "login" THEN <<"login", "goto", "check", "fill", "fill", "click">>
    ELSE <<"login", "goto", "check", "fill", "fill">> \o ClickAndWait
         \o (IF rows # <<>> THEN <<"row_click">> ELSE <<>>)
         \o <<"wait_for_selector">>

AfterLoginRetry(out) == IF out = "ok" THEN "load_data" ELSE "login"

\* run: step_login returns, or its exception goes to the outer handler
AfterLogin(out) == IF out = "ok" THEN "load_data" ELSE "critical"

\* self.step_login(user_id, password, salon_info)
StepLogin ==
    /\ wpc = "login"
    /\ \E out \in LoginOutcomes :
          /\ log' = log \o LoginOps(out, salon_rows)
          /\ wpc' = AfterLogin(out)
          /\ IF out = "ok" THEN /\ selected' = SelectSalon(salon_rows, salon_info)
                                /\ UNCHANGED cause
                           ELSE /\ cause' = out
                                /\ UNCHANGED selected
    /\ UNCHANGED <<inputs, auxVars, salon_rows, salon_info, task, queue, loaded,
                   expired, start_from, shots, results, idx, browser, page,
                   raised, attempts, posted, stopAt, runs, hpc, hloaded, reqs,
                   intAt>>

\* pd.read_csv / pd.read_excel; results["total"] = len(df)
LoadData ==
    /\ wpc = "load_data"
    /\ \E ok \in BOOLEAN :
          IF ok THEN /\ wpc' = "navigate"
                     /\ results' = [results EXCEPT !.total = N]
                     /\ UNCHANGED cause
                ELSE /\ wpc' = "critical"
                     /\ cause' = "load"
                     /\ UNCHANGED results
    /\ UNCHANGED <<inputs, auxVars, loginVars, task, queue, loaded, expired,
                   start_from, shots, idx, browser, page, raised, log,
                   attempts, posted, stopAt, runs, hpc, hloaded, reqs, intAt>>

FirstRowZero(k) == 0

\* index of the first row of df.iloc[start_from_row:]
FirstRow(k) == k

\* what step_navigate_to_style_list_page can do: KeyError when the
\* navigation section is missing, else return, robot detection or timeout
NavigateOutcomes ==
    IF "navigation" \notin selectors THEN {"selector"}
    ELSE {"ok", "robot_navigate", "navigate"}

\* self.step_navigate_to_style_list_page(), then the loop is set up
StepNavigate ==
    /\ wpc = "navigate"
    /\ \E out \in NavigateOutcomes :
          /\ log' = IF out = "selector" THEN log ELSE Append(log, "navigate")
          /\ IF out = "ok" THEN /\ wpc' = "loop"
                                /\ idx' = FirstRow(start_from)
                                /\ view' = "list"
                                /\ UNCHANGED cause
                           ELSE /\ wpc' = "critical"
                                /\ cause' = out
                                /\ UNCHANGED <<idx, view>>
    /\ UNCHANGED <<inputs, guard, accepted, loginVars, task, queue, loaded,
                   expired, start_from, shots, results, browser, page, raised,
                   attempts, posted, stopAt, runs, hpc, hloaded, reqs, intAt>>

\* for idx, row in df.iloc[start_from_row:].iterrows(): next row, and the
\* callback's update_task_status(..., "PROCESSING", completed_items=completed)
LoopHead ==
    /\ wpc = "loop"
    /\ ~expired
    /\ IF idx < N
       THEN /\ WorkerUpdate("PROCESSING", results.completed, NoStr, NoStr, NoStr)
            /\ log' = Append(log, "cb")
            /\ wpc' = "cb_check"
       ELSE /\ wpc' = "final_cb"
            /\ UNCHANGED <<task, loaded, expired, log>>
    /\ UNCHANGED <<inputs, auxVars, loginVars, queue, start_from, shots, results, idx,
                   browser, page, cause, raised, attempts, stopAt, posted,
                   runs, hpc, hloaded, reqs, intAt>>

\* the callback's interruption test on the instance it gets back
Interrupted(inst) == inst.status = "INTERRUPTED"

AfterCheckNoBreak(stop) == "row"

\* if not callback(completed, total): break
AfterCheck(stop) == IF stop THEN "final_cb" ELSE "row"

\* callback returns; run breaks out of the loop on False
CbCheck ==
    /\ wpc = "cb_check"
    /\ ~expired
    /\ stopAt' = IF Interrupted(loaded) THEN idx ELSE stopAt
    /\ wpc' = AfterCheck(Interrupted(loaded))
    /\ UNCHANGED <<inputs, auxVars, loginVars, task, queue, loaded, expired,
                   start_from, shots, results, idx, browser, page, cause,
                   raised, log, attempts, posted, runs, hpc, hloaded, reqs,
                   intAt>>

\* the image checks of the row body: ValueError when the row has no image
\* name, FileNotFoundError when the named file is not in image_dir, and
\* TypeError from Path(image_dir) / nan when the cell is empty
ImageFault(kind) == kind \in {"noimage", "nofile", "nan"}

\* the row body up to the call: the image checks raise, or
\* step_process_single_style(style_data, image_path) is entered
RowStart ==
    /\ wpc = "row"
    /\ IF ImageFault(df[idx + 1])
       THEN /\ cause' = df[idx + 1]
            /\ wpc' = "row_except"
            /\ UNCHANGED <<attempts, log>>
       ELSE /\ attempts' = Append(attempts, idx)
            /\ log' = Append(log, "row")
            /\ wpc' = "in_row"
            /\ UNCHANGED cause
    /\ UNCHANGED <<inputs, auxVars, loginVars, task, queue, loaded, expired,
                   start_from, shots, results, idx, browser, page, raised,
                   posted, stopAt, runs, hpc, hloaded, reqs, intAt>>

CaughtInRowNone(kind) == FALSE

\* which exceptions of the row body the inner handler of run catches:
\* except Exception, so the RuntimeError of a robot detection as well
CaughtInRow(kind) ==
    kind \in {"timeout", "robot", "selector", "back_timeout", "back_robot"}

\* what step_process_single_style does with row i-1: KeyError at its first
\* selector lookup when the style_form section is missing, else as the
\* portal answers
RowOutcome(i) == IF "style_form" \in selectors THEN df[i] ELSE "selector"

\* the completion marker of the row was observed: the portal has stored
\* the entry (wait_for_selector(complete_text) returned)
MarkerObserved(kind) == kind \in {"ok", "back_timeout", "back_robot"}

\* the view the page shows when step_process_single_style ends: the list
\* after the back click, the form when a wait inside it timed out, the
\* completion page when the back click timed out, the page with the
\* detection signature, or the view as it was when the first selector
\* lookup raised
ViewAfterRow(kind, v) ==
    CASE kind = "ok" -> "list"
      [] kind = "timeout" -> "form"
      [] kind = "back_timeout" -> "complete"
      [] kind \in {"robot", "back_robot"} -> "other"
      [] OTHER -> v

RowDoneTwice(res) == [res EXCEPT !.completed = @ + 2]

\* results["completed"] += 1
RowDone(res) == [res EXCEPT !.completed = @ + 1]

\* step_process_single_style returns (results["completed"] += 1) or raises
RowEnd ==
    /\ wpc = "in_row"
    /\ IF RowOutcome(idx + 1) = "ok"
       THEN /\ results' = RowDone(results)
            /\ posted' = [posted EXCEPT ![idx + 1] = @ + 1]
            /\ idx' = idx + 1
            /\ wpc' = "loop"
            /\ UNCHANGED cause
       ELSE /\ cause' = RowOutcome(idx + 1)
            /\ posted' = IF MarkerObserved(RowOutcome(idx + 1))
                         THEN [posted EXCEPT ![idx + 1] = @ + 1]
                         ELSE posted
            /\ wpc' = IF CaughtInRow(RowOutcome(idx + 1))
                      THEN "row_except" ELSE "critical"
            /\ UNCHANGED <<results, idx>>
    /\ view' = ViewAfterRow(RowOutcome(idx + 1), view)
    /\ UNCHANGED <<inputs, guard, accepted, loginVars, task, queue, loaded,
                   expired, start_from, shots, browser, page, raised, log,
                   attempts, stopAt, runs, hpc, hloaded, reqs, intAt>>

RowFailedNoRecord(res, i, c) == [res EXCEPT !.failed = @ + 1]

\* results["failed"] += 1; results["errors"].append({"row": int(idx), ...})
RowFailed(res, i, c) ==
    [res EXCEPT !.failed = @ + 1,
                !.errors = Append(@, [row |-> i, error |-> c])]

\* except Exception as e (inner): screenshot, failed += 1, error record,
\* continue.  An exception of _take_screenshot leaves this handler for the
\* outer one.
RowExcept ==
    /\ wpc = "row_except"
    /\ log' = Append(log, "shot")
    /\ \E ts \in ClockNow : shots' = TakeScreenshot(shots, RowPrefix(idx), ts)
    /\ \E captured \in {TRUE} \cup (IF CanCaptureFail THEN {FALSE} ELSE {}) :
          IF captured
          THEN /\ results' = RowFailed(results, idx, cause)
               /\ idx' = idx + 1
               /\ cause' = NoStr
               /\ wpc' = "loop"
          ELSE /\ cause' = "capture"
               /\ wpc' = "critical"
               /\ UNCHANGED <<results, idx>>
    /\ UNCHANGED <<inputs, auxVars, loginVars, task, queue, loaded, expired,
                   start_from, browser, page, raised, attempts, posted,
                   stopAt, runs, hpc, hloaded, reqs, intAt>>

\* final progress update after the loop; the return value is not used
FinalCb ==
    /\ wpc = "final_cb"
    /\ ~expired
    /\ WorkerUpdate("PROCESSING", results.completed, NoStr, NoStr, NoStr)
    /\ log' = Append(log, "cb")
    /\ wpc' = "finally"
    /\ UNCHANGED <<inputs, auxVars, loginVars, queue, start_from, shots, results, idx,
                   browser, page, cause, raised, attempts, stopAt, posted,
                   runs, hpc, hloaded, reqs, intAt>>

CriticalResultKeepSuccess(res, c) ==
    [res EXCEPT !.errors = Append(@, [error |-> c])]

\* results["success"] = False; results["errors"].append({error, screenshot})
CriticalResult(res, c) ==
    [res EXCEPT !.success = FALSE, !.errors = Append(@, [error |-> c])]

\* except Exception as e (outer): screenshot, success = False, one record
\* without a row; an exception of _take_screenshot leaves run
Critical ==
    /\ wpc = "critical"
    /\ log' = Append(log, "shot")
    /\ \E ts \in ClockNow : shots' = TakeScreenshot(shots, CriticalPrefix, ts)
    /\ \E captured \in {TRUE} \cup (IF CanCaptureFail THEN {FALSE} ELSE {}) :
          IF captured
          THEN /\ results' = CriticalResult(results, cause)
               /\ UNCHANGED raised
          ELSE /\ raised' = TRUE
               /\ UNCHANGED results
    /\ wpc' = "finally"
    /\ UNCHANGED <<inputs, auxVars, loginVars, task, queue, loaded, expired,
                   start_from, idx, browser, page, cause, attempts, posted,
                   stopAt, runs, hpc, hloaded, reqs, intAt>>

CloseBrowserSkipped(l) == l

\* _close_browser: browser.close(), playwright.stop()
CloseBrowser(l) == Append(l, "close")

\* finally: self._close_browser(); then return results, or the exception
\* goes on to execute_style_post
Finally ==
    /\ wpc = "finally"
    /\ ~expired
    /\ log' = CloseBrowser(log)
    /\ browser' = FALSE
    /\ shots' = <<>>
    /\ view' = "none"
    /\ wpc' = IF raised THEN "task_except" ELSE "final_status"
    /\ UNCHANGED <<inputs, guard, accepted, loginVars, task, queue, loaded,
                   expired,
                   start_from, results, idx, page, cause, raised, attempts,
                   posted, stopAt, runs, hpc, hloaded, reqs, intAt>>

\* ------------------------------------- execute_style_post, after the run

\* the final status written for a returned result, by the branch taken
FinalStatusOf(inst, res) ==
    IF inst.status = "INTERRUPTED"
    THEN [status |-> "INTERRUPTED", ci |-> res.completed, em |-> "interrupted"]
    ELSE IF res.success /\ res.failed = 0
    THEN [status |-> "SUCCESS", ci |-> res.completed, em |-> NoStr]
    ELSE IF res.failed > 0
    THEN [status |-> "SUCCESS", ci |-> res.completed, em |-> "partial"]
    ELSE [status |-> "FAILURE", ci |-> NoInt, em |-> "unknown"]

FinalStatus ==
    /\ wpc = "final_status"
    /\ ~expired
    /\ LET f == FinalStatusOf(loaded, results)
       IN  WorkerUpdate(f.status, f.ci, f.em, NoStr, NoStr)
    /\ wpc' = "done"
    /\ UNCHANGED <<inputs, auxVars, loginVars, queue, runVars, posted, runs, hpc,
                   hloaded, reqs, intAt>>

\* except Exception as e: status FAILURE, message, screenshot path; raise
TaskExcept ==
    /\ wpc = "task_except"
    /\ ~expired
    /\ WorkerUpdate("FAILURE", NoInt, "exception", NoStr, "critical_error.png")
    /\ wpc' = "done"
    /\ UNCHANGED <<inputs, auxVars, loginVars, queue, runVars, posted, runs, hpc,
                   hloaded, reqs, intAt>>

\* ------------------------------------------------------ api/v1/tasks.py

\* interrupt_task up to the status test: get_task_by_id, then 400 unless
\* the status is PENDING or PROCESSING
InterruptRead ==
    /\ hpc = "idle"
    /\ reqs < MaxRequests
    /\ reqs' = reqs + 1
    /\ IF task.status \in {"PENDING", "PROCESSING"}
       THEN hloaded' = task /\ hpc' = "interrupt"
       ELSE hloaded' = NoInstance /\ hpc' = "idle"
    /\ UNCHANGED <<inputs, auxVars, loginVars, task, queue, wpc, loaded, expired,
                   runVars, posted, runs, intAt>>

\* interrupt_task: update_task_status(db, task_id, "INTERRUPTED")
InterruptWrite ==
    /\ hpc = "interrupt"
    /\ task' = UpdateTaskStatus(task, hloaded, "INTERRUPTED", NoInt, NoStr, NoStr, NoStr)
    /\ hpc' = "idle"
    /\ hloaded' = NoInstance
    /\ intAt' = IF wpc = "in_row" THEN idx ELSE intAt
    /\ UNCHANGED <<inputs, auxVars, loginVars, queue, wpc, loaded, expired, runVars,
                   posted, runs, reqs>>

\* resume_task up to the status test: 400 unless the status is INTERRUPTED
ResumeRead ==
    /\ hpc = "idle"
    /\ reqs < MaxRequests
    /\ reqs' = reqs + 1
    /\ IF task.status = "INTERRUPTED"
       THEN hloaded' = task /\ hpc' = "resume"
       ELSE hloaded' = NoInstance /\ hpc' = "idle"
    /\ UNCHANGED <<inputs, auxVars, loginVars, task, queue, wpc, loaded, expired,
                   runVars, posted, runs, intAt>>

\* resume_task: update_task_status(db, task_id, "PENDING")
ResumeWrite ==
    /\ hpc = "resume"
    /\ task' = UpdateTaskStatus(task, hloaded, "PENDING", NoInt, NoStr, NoStr, NoStr)
    /\ hpc' = "idle"
    /\ hloaded' = NoInstance
    /\ intAt' = NoInt
    /\ UNCHANGED <<inputs, auxVars, loginVars, queue, wpc, loaded, expired, runVars,
                   posted, runs, reqs>>

\* The scheduler places a resumed (PENDING) Job on a worker again; the
\* endpoint itself leaves this to the transport.
Requeue ==
    /\ task.status = "PENDING"
    /\ wpc = "done"
    /\ queue = 0
    /\ runs < MaxRuns
    /\ queue' = queue + 1
    /\ UNCHANGED <<inputs, auxVars, loginVars, task, wpc, loaded, expired, runVars,
                   posted, runs, hpc, hloaded, reqs, intAt>>

\* ---------------------------------------------------------- specification

Next ==
    \/ Deliver
    \/ MarkProcessing
    \/ Refresh
    \/ Setup
    \/ StartBrowser
    \/ StepLogin
    \/ LoadData
    \/ StepNavigate
    \/ LoopHead
    \/ CbCheck
    \/ RowStart
    \/ RowEnd
    \/ RowExcept
    \/ FinalCb
    \/ Critical
    \/ Finally
    \/ FinalStatus
    \/ TaskExcept
    \/ InterruptRead
    \/ InterruptWrite
    \/ ResumeRead
    \/ ResumeWrite
    \/ Requeue

Spec == Init /\ [][Next]_vars

ImageSpec == ImageInit /\ [][Next]_vars

\* the salon tables the portal can show after the login form and the
\* hints a setting can carry
SalonTables ==
    UNION {[1..n -> [id : SalonIds, name : SalonNames]] : n \in 1..MaxSalons}

SalonHints == [id : SalonIds \cup {NoStr}, name : SalonNames \cup {NoStr}]

\* the worker of a first run has launched the browser and is in step_login
LoggingIn ==
    /\ df = <<"ok">>
    /\ selectors = Sections
    /\ guard = NotCalled
    /\ sheet = [columns |-> SheetColumns, rows |-> <<>>]
    /\ images = {}
    /\ accepted = TRUE
    /\ view = "none"
    /\ selected = 0
    /\ shots = <<>>
    /\ task = [CreateTask(1) EXCEPT !.status = "PROCESSING",
                                    !.log_file_path = "log"]
    /\ loaded = task
    /\ expired = FALSE
    /\ queue = 0
    /\ wpc = "login"
    /\ start_from = 0
    /\ results = NewResults
    /\ idx = 0
    /\ browser = TRUE
    /\ page = TRUE
    /\ cause = NoStr
    /\ raised = FALSE
    /\ log = <<"start">>
    /\ attempts = <<>>
    /\ posted = <<0>>
    /\ stopAt = NoInt
    /\ runs = 1
    /\ hpc = "idle"
    /\ hloaded = NoInstance
    /\ reqs = 0
    /\ intAt = NoInt

\* step_login of a multi-store account on its own: the worker of a first
\* run has launched the browser and is about to log in; the portal lists
\* any table of salons, the setting carries any hint.
LoginInit ==
    /\ salon_rows \in SalonTables
    /\ salon_info \in SalonHints
    /\ detection = [selectors |-> <<>>, texts |-> <<>>]
    /\ present = {}
    /\ LoggingIn

LoginNext == StepLogin

LoginSpec == LoginInit /\ [][LoginNext]_vars

\* ---------------------------------------------- _check_robot_detection

\* detection signatures: element selectors and texts
DetectionSelectors == {"sel1", "sel2"}
DetectionTexts == {"txt1", "txt2"}

\* the sequences over a set, up to MaxSignatures long
Lists(S) == UNION {[1..n -> S] : n \in 0..MaxSignatures}

ProbeAll(list, found) == list

\* for x in list: if locator(x).count() > 0: return True
\* the tests made on a list: up to and including the first one found
Probe(list, found) ==
    IF \E i \in 1..Len(list) : list[i] \in found
    THEN SubSeq(list, 1, CHOOSE i \in 1..Len(list) :
                            /\ list[i] \in found
                            /\ \A j \in 1..(i - 1) : list[j] \notin found)
    ELSE list

\* a probe ended on a match
Hit(tests, found) == tests # <<>> /\ tests[Len(tests)] \in found

\* _check_robot_detection: False without a page; the selectors, then the
\* texts, True at the first one on the page
CheckRobotDetection(cfg, found, hasPage) ==
    IF ~hasPage THEN [called |-> TRUE, result |-> FALSE, tests |-> <<>>]
    ELSE LET st == Probe(cfg.selectors, found)
             tt == Probe(cfg.texts, found)
         IN  IF Hit(st, found)
             THEN [called |-> TRUE, result |-> TRUE, tests |-> st]
             ELSE [called |-> TRUE, result |-> Hit(tt, found),
                   tests |-> st \o tt]

\* the guard on its own: any configuration, any page content
GuardInit ==
    /\ salon_rows = <<>>
    /\ salon_info = NoHint
    /\ detection \in [selectors : Lists(DetectionSelectors),
                       texts : Lists(DetectionTexts)]
    /\ present \in SUBSET (DetectionSelectors \cup DetectionTexts)
    /\ LoggingIn

\* one call of self._check_robot_detection() on the current page
CheckRobotDetectionCall ==
    /\ ~guard.called
    /\ guard' = CheckRobotDetection(detection, present, page)
    /\ log' = Append(log, "check")
    /\ UNCHANGED <<inputs, accepted, view, loginVars, task, queue, wpc, loaded,
                   expired, start_from, shots, results, idx, browser, page,
                   cause, raised, attempts, posted, stopAt, runs, hpc,
                   hloaded, reqs, intAt>>

GuardNext == CheckRobotDetectionCall

GuardSpec == GuardInit /\ [][GuardNext]_vars

\* ------------------------------------------------ create_style_post_task

\* the image file names a request can carry
ImageNames == {"a.png", "b.png"}

\* a cell of the data file: a file name, or NoStr for an empty cell (NaN)
Cells == ImageNames \cup {NoStr}

\* the data files: which of the two columns they have, and their rows; a
\* column the file does not have has no cell in any row
Sheets ==
    {s \in [columns : SUBSET SheetColumns,
            rows : UNION {[1..n -> [image_filename : Cells, image_name : Cells]] :
                             n \in 0..MaxSheet}] :
        \A i \in 1..Len(s.rows) : \A c \in SheetColumns \ s.columns :
            s.rows[i][c] = NoStr}

\* set(df["image_filename"].dropna().astype(str).tolist())
RequiredImages(s) ==
    {s.rows[i].image_filename : i \in 1..Len(s.rows)} \ {NoStr}

\* the checks of the endpoint: at least one image, the column
\* "image_filename", and every name in it among the uploaded images
Validate(s, uploaded) ==
    /\ uploaded # {}
    /\ "image_filename" \in s.columns
    /\ RequiredImages(s) \subseteq uploaded

\* what the image checks of run find for one row of the file
EngineImageCheck(row, columns, uploaded) ==
    IF "image_name" \notin columns THEN "noimage"
    ELSE IF row.image_name = NoStr THEN "nan"
    ELSE IF row.image_name \notin uploaded THEN "nofile"
    ELSE "ok"

\* a request to the upload endpoint, before any Task exists
UploadInit ==
    /\ sheet \in Sheets
    /\ images \in SUBSET ImageNames
    /\ accepted = FALSE
    /\ view = "none"
    /\ df = <<>>
    /\ selectors = Sections
    /\ detection = [selectors |-> <<>>, texts |-> <<>>]
    /\ present = {}
    /\ guard = NotCalled
    /\ salon_rows = <<>>
    /\ salon_info = NoHint
    /\ selected = 0
    /\ shots = <<>>
    /\ task = NoInstance
    /\ queue = 0
    /\ wpc = "idle"
    /\ loaded = NoInstance
    /\ expired = FALSE
    /\ start_from = 0
    /\ results = NewResults
    /\ idx = 0
    /\ browser = FALSE
    /\ page = FALSE
    /\ cause = NoStr
    /\ raised = FALSE
    /\ log = <<>>
    /\ attempts = <<>>
    /\ posted = <<>>
    /\ stopAt = NoInt
    /\ runs = 0
    /\ hpc = "idle"
    /\ hloaded = NoInstance
    /\ reqs = 0
    /\ intAt = NoInt

\* create_style_post_task: the files are saved and validated, the Task is
\* stored and the message queued; a file that fails a check raises and
\* nothing is stored. The data file path handed to the worker is the file
\* that was validated, so the rows of run are the rows of the sheet.
CreateStylePostTask ==
    /\ task = NoInstance
    /\ ~accepted
    /\ Validate(sheet, images)
    /\ accepted' = TRUE
    /\ task' = CreateTask(Len(sheet.rows))
    /\ queue' = 1
    /\ df' = [i \in 1..Len(sheet.rows) |->
                 EngineImageCheck(sheet.rows[i], sheet.columns, images)]
    /\ posted' = [i \in 1..Len(sheet.rows) |-> 0]
    /\ UNCHANGED <<selectors, detection, present, sheet, images, guard, view,
                   loginVars, wpc, loaded, expired, runVars, runs, hpc,
                   hloaded, reqs, intAt>>

\* the steps of the worker process, from the delivery of a queued message
\* to the last status write
Worker ==
    \/ Deliver
    \/ MarkProcessing
    \/ Refresh
    \/ Setup
    \/ StartBrowser
    \/ StepLogin
    \/ LoadData
    \/ StepNavigate
    \/ LoopHead
    \/ CbCheck
    \/ RowStart
    \/ RowEnd
    \/ RowExcept
    \/ FinalCb
    \/ Critical
    \/ Finally
    \/ FinalStatus
    \/ TaskExcept

\* Fair scheduling: the broker delivers a queued message and the worker
\* runs the task to its end; a request that was accepted is carried out.
\* Nothing in the program puts a resumed Job back on the queue, so Requeue
\* has no fairness.
FairSpec ==
    /\ Spec
    /\ WF_vars(Worker)
    /\ WF_vars(InterruptWrite \/ ResumeWrite)

\* the Job after interrupt_task answered a request made while the Job was
\* PENDING and its message still queued: the state Spec reaches from Init
\* by InterruptRead and InterruptWrite
InterruptedPendingInit ==
    /\ df \in UNION {[1..n -> RowKinds] : n \in 0..MaxRows}
    /\ selectors \in {Sections} \cup {Sections \ {s} : s \in Sections}
    /\ detection = [selectors |-> <<>>, texts |-> <<>>]
    /\ present = {}
    /\ guard = NotCalled
    /\ sheet = [columns |-> SheetColumns, rows |-> <<>>]
    /\ images = {}
    /\ accepted = TRUE
    /\ view = "none"
    /\ salon_rows = <<>>
    /\ salon_info = NoHint
    /\ selected = 0
    /\ shots = <<>>
    /\ task = UpdateTaskStatus(CreateTask(Len(df)), CreateTask(Len(df)),
                               "INTERRUPTED", NoInt, NoStr, NoStr, NoStr)
    /\ queue = 1
    /\ wpc = "idle"
    /\ loaded = CreateTask(Len(df))
    /\ expired = FALSE
    /\ start_from = 0
    /\ results = NewResults
    /\ idx = 0
    /\ browser = FALSE
    /\ page = FALSE
    /\ cause = NoStr
    /\ raised = FALSE
    /\ log = <<>>
    /\ attempts = <<>>
    /\ posted = [i \in 1..Len(df) |-> 0]
    /\ stopAt = NoInt
    /\ runs = 0
    /\ hpc = "idle"
    /\ hloaded = NoInstance
    /\ reqs = 1
    /\ intAt = NoInt

\* the worker on that Job, with no further request
InterruptedPendingSpec == InterruptedPendingInit /\ [][Worker]_vars

\* the Job over datasets whose rows can also fail after the completion
\* marker, with the whole selector configuration
FormInit ==
    /\ df \in UNION {[1..n -> FormKinds] : n \in 0..MaxRows}
    /\ selectors = Sections
    /\ Created

\* the worker on that Job, with no request
FormSpec == FormInit /\ [][Worker]_vars

UploadNext == CreateStylePostTask \/ Worker

\* an upload and the run of the Job it creates
UploadSpec == UploadInit /\ [][UploadNext]_vars

TypeOK ==
    /\ task.status \in Statuses
    /\ idx \in 0..MaxRows
    /\ queue \in 0..1
    /\ view \in Views

\* ------------------------------------------------------------------ claims

\* run has handed its result back to execute_style_post
Returned == wpc \in {"final_status", "done"} /\ ~raised

\* the rows k, k+1, ..., k+m-1
Consecutive(k, m) == [j \in 1..m |-> k + j - 1]

\* C1: over the whole life of a Job (interrupt / resume cycles, each run
\* starting at the persisted completed_items) no row that was submitted
\* successfully is ever submitted again.
C1_NoRowPostedTwice == \A i \in 1..N : posted[i] <= 1

OnePassCompleted == Cardinality({i \in 1..N : RowOutcome(i) = "ok"})

\* the run went through the whole row loop and returned its result
RanToEnd == Returned /\ wpc = "done" /\ results.success /\ stopAt = NoInt

\* C3: idempotence of resume: a Job that is interrupted and resumed ends
\* with the completed count and the per-row outcomes of a single pass.
C3_ResumeEndsLikeOnePass ==
    RanToEnd =>
        /\ task.completed_items = OnePassCompleted
        /\ \A i \in 1..N : posted[i] = IF RowOutcome(i) = "ok" THEN 1 ELSE 0

\* the same statement for first runs only (holds: a sanity check)
C3_FirstRunOnly == (runs = 1 /\ RanToEnd) =>
        /\ task.completed_items = OnePassCompleted
        /\ \A i \in 1..N : posted[i] = IF RowOutcome(i) = "ok" THEN 1 ELSE 0

\* C4: an interrupt committed while a row is in progress (and not taken
\* back by a resume) stops the run at the next row boundary: no row after
\* the one in progress is started.
C4_InterruptStopsAtNextBoundary ==
    intAt # NoInt => \A j \in 1..Len(attempts) : attempts[j] <= intAt

\* C5: a run that ended early because the row-boundary check saw the stop
\* signal is finally recorded as INTERRUPTED with the partial count.
C5_StoppedRunRecordedInterrupted ==
    [][(wpc = "final_status" /\ wpc' = "done" /\ stopAt # NoInt)
          => (task'.status = "INTERRUPTED"
              /\ task'.completed_items = results.completed)]_vars

\* rows 0..k-1 of the dataset all post
AllOkBefore(k) == \A i \in 1..k : RowOutcome(i) = "ok"

\* C6: run from offset 0, rows 0..i post, the callback first returns stop
\* at the check before row i+1: the run returns success with
\* completed = i+1 and rows i+1.. are never handed to the row step.
C6_StopAfterRowI ==
    (Returned /\ start_from = 0 /\ stopAt # NoInt /\ AllOkBefore(stopAt)) =>
        /\ results.success
        /\ results.completed = stopAt
        /\ results.failed = 0
        /\ attempts = Consecutive(0, stopAt)

C6_Witness ==
    /\ Returned
    /\ start_from = 0
    /\ N = 3
    /\ stopAt = 2
    /\ AllOkBefore(2)
    /\ results.completed = 2

\* the rows of the dataset that raise in the row step
BadRows == {i \in 1..N : RowOutcome(i) # "ok"}

\* every record of the result stems from a row (no launch, login, load,
\* navigation or screenshot failure in this run)
OnlyRowFaults ==
    \A k \in 1..Len(results.errors) :
        \/ "row" \in DOMAIN results.errors[k]
        \/ results.errors[k].error \in RowKinds

\* C7: run from offset 0 without cancellation over a dataset in which
\* exactly row j raises a row-level error: every other row is attempted
\* and the result is success, completed = N-1, failed = 1 and one error
\* record, for row j.
C7_OneBadRowIsolated ==
    (Returned /\ start_from = 0 /\ stopAt = NoInt /\ OnlyRowFaults
       /\ \E j \in 1..N : BadRows = {j} /\ RowOutcome(j) = "timeout") =>
        /\ results.success
        /\ results.completed = N - 1
        /\ results.failed = 1
        /\ attempts = Consecutive(0, N)
        /\ Len(results.errors) = 1
        /\ "row" \in DOMAIN results.errors[1]
        /\ BadRows = {results.errors[1].row + 1}

C7_Witness ==
    /\ Returned
    /\ start_from = 0
    /\ stopAt = NoInt
    /\ df = <<"ok", "timeout", "ok">>
    /\ results.failed = 1
    /\ results.completed = 2

\* a robot-detection signature was met in this run
RobotDetected ==
    \/ cause \in {"robot_login", "robot_navigate"}
    \/ \E j \in 1..Len(attempts) :
          /\ RowOutcome(attempts[j] + 1) = "robot"
          /\ (attempts[j] < idx \/ wpc \notin {"row", "in_row"})

\* C8: a robot detection at any point of a run gives success = false,
\* exactly one error record, and no row after the one in progress.
C8_RobotDetectionAborts ==
    (Returned /\ RobotDetected) =>
        /\ ~results.success
        /\ Len(results.errors) = 1
        /\ \A j \in 1..(Len(attempts) - 1) : RowOutcome(attempts[j] + 1) # "robot"

\* the run failed before the row loop
PreLoopFailure ==
    cause \in {"launch", "login", "robot_login", "load", "navigate",
               "robot_navigate"}

\* C9: when the launch, the login, the data load or the navigation fails,
\* no row is attempted, completed and failed stay 0, and the result that
\* run returns has success = false and exactly one record, without a row.
C9_PreLoopFailureResult ==
    PreLoopFailure =>
        /\ attempts = <<>>
        /\ results.completed = 0
        /\ results.failed = 0
        /\ Returned => /\ ~results.success
                       /\ results.errors = <<[error |-> cause]>>

C9_Witness ==
    /\ Returned
    /\ cause = "navigate"
    /\ results.total = 2

\* run was entered and has been left (returned or raised)
RunExited == log # <<>> /\ wpc \in {"final_status", "task_except", "done"}

\* C10: every invocation of run executes the teardown exactly once, as
\* its last session action, on every exit path.
C10_TeardownOnceAndLast ==
    /\ RunExited =>
          /\ log[Len(log)] = "close"
          /\ Cardinality({k \in 1..Len(log) : log[k] = "close"}) = 1
    /\ ~RunExited => \A k \in 1..Len(log) : log[k] # "close"

C10_Witness ==
    /\ wpc = "task_except"
    /\ raised
    /\ cause = "capture"
    /\ Len(attempts) = 2

\* C11: in every reachable state of the Task row, across creation, the
\* worker's progress and final writes, interrupt and resume,
\* 0 <= completed_items <= total_items.
C11_CompletedWithinTotal ==
    /\ 0 <= task.completed_items
    /\ task.completed_items <= task.total_items

C11_Witness ==
    /\ task.status = "SUCCESS"
    /\ task.total_items = 3
    /\ task.completed_items = 3
    /\ reqs > 0

\* C12: while the status is PROCESSING the persisted completed_items never
\* decreases: every write, in a first run and in a resumed run alike,
\* stores a value greater than or equal to the one stored before it.
C12_CompletedNeverDecreases ==
    [][(task.status = "PROCESSING" /\ task'.status = "PROCESSING")
          => task'.completed_items >= task.completed_items]_vars

\* the transitions of the Job lifecycle
Lifecycle ==
    {<<"PENDING", "PROCESSING">>, <<"PROCESSING", "SUCCESS">>,
     <<"PROCESSING", "FAILURE">>, <<"PROCESSING", "INTERRUPTED">>,
     <<"INTERRUPTED", "PENDING">>}

\* C13: every change of the persisted status is a lifecycle transition,
\* under any interleaving of the worker and the interrupt / resume
\* endpoints.
C13_OnlyLifecycleTransitions ==
    [][task'.status # task.status
          => <<task.status, task'.status>> \in Lifecycle]_vars

\* the Job was set back to PENDING by resume_task (a run has been started
\* before) and the run budget allows another pickup
Resumed == task.status = "PENDING" /\ runs >= 1 /\ runs < MaxRuns

\* C14: a resumed Job is eventually picked up again by a worker: under
\* fair scheduling it leaves PENDING (for PROCESSING, and from there a
\* terminal or INTERRUPTED status) and does not stay PENDING forever.
C14_ResumedIsPickedUp == Resumed ~> task.status # "PENDING"

\* C15: a selector configuration that lacks a required section is
\* rejected when it is loaded: in that run the browser is never launched,
\* no login is attempted and no row is attempted.
C15_IncompleteSelectorsRejected ==
    selectors # Sections => (log = <<>> /\ attempts = <<>> /\ ~browser)

\* C16: a failure of the screenshot capture never changes the outcome of
\* the run: in the row handler it does not travel on to the outer handler
\* (the row is recorded as failed and the loop goes on), and in the outer
\* handler it does not make run raise (only the set-up of
\* execute_style_post, before run, raises).
C16_CaptureFailureSwallowed ==
    /\ cause # "capture"
    /\ raised => cause = "setup"

\* C17: within one run the file names produced for two distinct failures
\* are never equal, also when both fall in the same clock second.
C17_ScreenshotNamesDistinct ==
    \A i, j \in 1..Len(shots) : i # j => shots[i] # shots[j]

C17_Witness ==
    /\ Len(shots) = 3
    /\ shots[1].timestamp = shots[2].timestamp
    /\ shots[2].timestamp = shots[3].timestamp
    /\ shots[3].prefix = CriticalPrefix

\* C18: whenever run returns a result with success and failed > 0, every
\* row from the resume offset to the end of the dataset was attempted.
C18_PartialSuccessAttemptedAll ==
    (Returned /\ results.success /\ results.failed > 0)
        => Len(attempts) = N - start_from

\* step_login returned after clicking a listed salon, for a hint that
\* carries both an id and a name
SalonChosenByFullHint ==
    /\ wpc = "load_data"
    /\ selected # 0
    /\ salon_info.id # NoStr
    /\ salon_info.name # NoStr

\* C19: with a hint carrying both an id and a name, id-match takes
\* precedence: if any listed row's id equals the hint id, the row selected
\* matches by id, even when a row listed earlier matches only by name.
C19_IdMatchTakesPrecedence ==
    SalonChosenByFullHint =>
        ((\E i \in 1..Len(salon_rows) : salon_rows[i].id = salon_info.id)
            => salon_rows[selected].id = salon_info.id)

\* a worker run is active for the Job
WorkerActive == wpc \notin {"idle", "done"}

\* the step is a write of a request handler (the worker's steps leave the
\* handler where it is)
HandlerStep == hpc' # hpc

\* C20: single writer: while a worker run is active, no other component
\* (the interrupt and resume endpoints included) writes the Job's status
\* or completed_items.
C20_SingleWriter ==
    [][(WorkerActive /\ (task'.status # task.status
                          \/ task'.completed_items # task.completed_items))
          => ~HandlerStep]_vars

\* the error records of the result that stem from a row without an image
\* name
MissingImageRecords ==
    {k \in 1..Len(results.errors) :
        /\ "row" \in DOMAIN results.errors[k]
        /\ results.errors[k].error = "noimage"}

\* C21: a row whose image reference is missing is skipped: it is not
\* counted as a failed row (no error record, no failed count), it is not
\* fatal, and the run continues with the next row.
C21_MissingImageRowSkipped ==
    /\ MissingImageRecords = {}
    /\ cause = "noimage" => wpc = "row_except"
    /\ (\A i \in 1..N : df[i] = "noimage") => results.failed = 0

\* the positions of the log at which the callback was invoked
CbAt == {k \in 1..Len(log) : log[k] = "cb"}

\* C22: the callback is invoked once per row boundary: never twice in a
\* row with no row submission in between, also when the run is cancelled.
C22_CallbackOncePerBoundary ==
    \A k \in CbAt : k < Len(log) => log[k + 1] # "cb"

\* the positions of an entry in the log
At(e) == {k \in 1..Len(log) : log[k] = e}

\* C23: start-session, login and navigation each run at most once and in
\* that order, and a row is submitted only after all three (and after
\* login and navigation succeeded).
C23_SessionStepsOnceInOrder ==
    /\ Cardinality(At("start")) <= 1
    /\ Cardinality(At("login")) <= 1
    /\ Cardinality(At("navigate")) <= 1
    /\ \A l \in At("login") : \E s \in At("start") : s < l
    /\ \A n \in At("navigate") : \E l \in At("login") : l < n
    /\ \A r \in At("row") :
          /\ \E n \in At("navigate") : n < r
          /\ cause \notin {"launch", "login", "robot_login", "navigate",
                            "robot_navigate"}

C23_Witness ==
    /\ Cardinality(At("row")) = 3
    /\ At("start") = {1}
    /\ wpc = "final_status"

\* the page operations that can trigger a navigation
NavigationOps == {"goto", "click", "row_click"}

\* C24: every action that can trigger a page navigation (the initial
\* goto, every click-and-settle, the click on the matching account row)
\* is followed by a robot-detection check before the next page operation.
C24_NavigationFollowedByCheck ==
    \A k \in 1..(Len(log) - 1) :
        log[k] \in NavigationOps => log[k + 1] = "check"

\* the step is the write of an accepted interrupt / resume request
InterruptWrites == hpc = "interrupt" /\ hpc' = "idle"
ResumeWrites == hpc = "resume" /\ hpc' = "idle"

\* the step is a request that the endpoint rejects
Rejects == hpc = "idle" /\ hpc' = "idle" /\ reqs' # reqs

\* C26: the interrupt endpoint changes a Job only when its status is
\* PENDING or PROCESSING, the resume endpoint only when it is INTERRUPTED;
\* a rejected request leaves the Job record unchanged.
C26_EndpointsChangeOnlyAllowedStatus ==
    [][/\ InterruptWrites => task.status \in {"PENDING", "PROCESSING"}
       /\ ResumeWrites => task.status = "INTERRUPTED"
       /\ Rejects => task' = task]_vars

\* C27: a resume changes only the status of the Job, to PENDING: every
\* other column is left as it is, and the next run takes its offset from
\* the completed_items that the interrupted run persisted.
C27_ResumeChangesOnlyStatus ==
    [][/\ ResumeWrites => task' = [task EXCEPT !.status = "PENDING"]
       /\ runs' = runs + 1 => start_from' = task.completed_items]_vars

C27_Witness ==
    /\ runs = 2
    /\ wpc = "mark_processing"
    /\ task.status = "PENDING"
    /\ task.completed_items = 2
    /\ task.error_message = "interrupted"
    /\ start_from = 2

\* the set-up of execute_style_post failed in this run
SetupFailed == raised /\ cause = "setup"

\* C28: when the worker cannot resolve the setting, the secret or the
\* selector file, no browser session is opened and no row is attempted,
\* and the handler of execute_style_post stores FAILURE with the message.
C28_SetupFailureEndsFailure ==
    /\ [](SetupFailed => (log = <<>> /\ attempts = <<>> /\ ~browser))
    /\ [][(wpc = "task_except" /\ wpc' = "done")
            => (task'.status = "FAILURE"
                /\ task'.error_message = "exception"
                /\ task'.completed_at)]_vars

C28_Witness ==
    /\ SetupFailed
    /\ wpc = "done"
    /\ task.status = "FAILURE"
    /\ task.error_message = "exception"
    /\ runs = 1

\* C30: when run returns a result with success = false, the final status
\* that execute_style_post writes is never SUCCESS, whatever completed and
\* failed are.
C30_FailedResultNeverSuccess ==
    [][(wpc = "final_status" /\ wpc' = "done" /\ ~results.success)
          => task'.status # "SUCCESS"]_vars

\* the signatures the configuration lists, selectors before texts
Configured == detection.selectors \o detection.texts

\* C25: the guard returns true exactly when a configured selector or text
\* is on the page; it tests the selectors before the texts, in configured
\* order, and makes no test after the first match.
C25_GuardShortCircuits ==
    guard.called =>
        /\ guard.result <=> \E k \in 1..Len(Configured) : Configured[k] \in present
        /\ Len(guard.tests) <= Len(Configured)
        /\ guard.tests = SubSeq(Configured, 1, Len(guard.tests))
        /\ \A k \in 1..(Len(guard.tests) - 1) : guard.tests[k] \notin present
        /\ ~guard.result => guard.tests = Configured

C25_Witness ==
    /\ guard.called
    /\ guard.result
    /\ Len(detection.selectors) = 2
    /\ Len(detection.texts) = 2
    /\ Len(guard.tests) = 3
    /\ detection.texts[2] \in present

\* the engine met a row whose image reference or image file is missing
ImageFailure == wpc = "row_except" /\ ImageFault(cause)

\* C29: in a Job the upload layer accepted, no row fails in the engine on
\* a missing image reference or a missing image file.
C29_AcceptedJobHasEveryImage == accepted => ~ImageFailure

Terminal == {"SUCCESS", "FAILURE"}

\* C31: SUCCESS and FAILURE are absorbing: once the stored status of the
\* Job is one of them, no step of a handler or of the worker changes it.
C31_TerminalStatusAbsorbing ==
    [][task.status \in Terminal => task'.status = task.status]_vars

\* C32: a Job interrupted while PENDING, before any worker took it: the
\* worker that takes it later submits no row and the stored status stays
\* INTERRUPTED (no resume request is made).
C32_InterruptedPendingStaysInterrupted ==
    /\ task.status = "INTERRUPTED"
    /\ \A i \in 1..N : posted[i] = 0

\* C33: a Job stored as SUCCESS, none of whose rows can fail (so that no
\* row failed in any run), has completed_items = total_items.
C33_SuccessMeansAllRowsDone ==
    (task.status = "SUCCESS" /\ BadRows = {}) =>
        task.completed_items = task.total_items

\* the error records of the result with and without a row index
RowRecords == {k \in 1..Len(results.errors) : "row" \in DOMAIN results.errors[k]}
RunRecords == {k \in 1..Len(results.errors) : "row" \notin DOMAIN results.errors[k]}

\* the run was cancelled by the callback, or aborted by the outer handler
Cancelled == stopAt # NoInt
Aborted == ~results.success

\* the three parts of C34 on the result in hand
FailedCountsRowRecords == results.failed = Cardinality(RowRecords)

OneRunRecordIffAborted ==
    /\ Aborted <=> RunRecords # {}
    /\ Cardinality(RunRecords) <= 1

WithinRemainingRows ==
    /\ results.completed + results.failed <= results.total - start_from
    /\ (~Cancelled /\ ~Aborted) =>
           results.completed + results.failed = results.total - start_from

\* C34 as amended: the bound on completed + failed is stated for the
\* returns where total is at least the resume offset, which covers every
\* run that loaded the dataset; a run aborted before the dataset is loaded
\* returns total = 0 with completed = failed = 0, whatever the offset.
WithinRemainingRowsWhenLoaded ==
    /\ IF results.total >= start_from
       THEN results.completed + results.failed <= results.total - start_from
       ELSE /\ Aborted
            /\ results.total = 0
            /\ results.completed = 0
            /\ results.failed = 0
    /\ (~Cancelled /\ ~Aborted) =>
           results.completed + results.failed = results.total - start_from

C34_ResultAccountingWhenLoaded ==
    Returned => /\ FailedCountsRowRecords
                /\ OneRunRecordIffAborted
                /\ WithinRemainingRowsWhenLoaded

\* a resumed run that was aborted before it loaded the dataset has returned
C34_Witness ==
    /\ Returned
    /\ start_from > 0
    /\ Aborted
    /\ results.total = 0
    /\ Cardinality(RunRecords) = 1

\* C34: at every return of run, failed is the number of error records with
\* a row index, a record without a row index is there exactly when success
\* is false and there is at most one, and completed + failed is at most
\* total - resume_offset, and equal to it when the run was neither
\* cancelled nor aborted.
C34_ResultAccounting ==
    Returned => /\ FailedCountsRowRecords
                /\ OneRunRecordIffAborted
                /\ WithinRemainingRows

\* the rows the result records as failed
FailedRows == {results.errors[k].row : k \in RowRecords}

\* C35: a row the result records as failed was not posted to the portal:
\* a row whose completion marker was observed is counted as completed.
C35_FailedRowNotPosted == \A r \in FailedRows : posted[r + 1] = 0

\* C36: every row's submission starts from the list view: when the row
\* step is entered, and its first click (new entry) is about to be
\* issued, the page shows the list.
C36_RowStartsFromList == wpc = "in_row" => view = "list"

====
